---- MODULE Spec2Model ----
(***************************************************************************)
(* Model of DocCollection (packages/automerge-repo/src/DocCollection.ts):  *)
(* the registry that owns the DocumentId -> DocHandle cache, with its      *)
(* create / find / delete API and the deferred callback find schedules.    *)
(* DocHandle.ts and DocUrl.ts are not part of the sources at hand; their   *)
(* state machine and codec are modelled from the specification (4.1, 6).   *)
(***************************************************************************)
EXTENDS Integers, Sequences, FiniteSets, TLC

\* ------------------------------------------------------------------ bounds
NumIds == 2
MaxHandles == 2
MaxTimeouts == 1

\* ------------------------------------------------------------- identifiers
\* Document identifiers; EmptyId stands for the falsy (empty) identifier.
Ids == 1..NumIds
EmptyId == 0
\* Handle objects are named by their construction index; NoHandle is
\* `undefined` (no cache entry).
Handles == 1..MaxHandles
NoHandle == 0

\* ------------------------------------------------------------------- codec
\* A string handed to the registry: <<prefix, payload, checksum>>.  A bare
\* DocumentId has the empty prefix; a url has the "automerge:" prefix and a
\* checksum over the payload.
Checksum(d) == d % 2

stringifyAutomergeUrl(d) == <<"automerge:", d, Checksum(d)>>

isValidAutomergeUrl(u) ==
    /\ u[1] = "automerge:"
    /\ u[2] \in Ids
    /\ u[3] = Checksum(u[2])

parseAutomergeUrl(u) == [documentId |-> u[2]]

\* The urls handed to find: the url of every identifier, the same with a wrong
\* checksum, and one with a foreign prefix.
Urls ==
    {stringifyAutomergeUrl(d) : d \in Ids}
        \cup {<<"automerge:", d, 1 - Checksum(d)>> : d \in Ids}
        \cup {<<"http:", 1, Checksum(1)>>}
ValidUrls == {u \in Urls : isValidAutomergeUrl(u)}
BareIds == {<<"", d, 0>> : d \in Ids \cup {EmptyId}}
DeleteArgs == ValidUrls \cup BareIds

\* --------------------------------------------------------------- DocHandle
\* States: idle (only inside the constructor), loading, requesting, ready,
\* unavailable, deleted.
\* The states in which the handle waits for a document.
Pending == {"loading", "requesting"}

\* new DocHandle(documentId, { isNew }): idle -> ready (isNew) or
\* idle -> loading (a storage load is started).
NewDocHandle(documentId, isNew) ==
    LET s == IF isNew THEN "ready" ELSE "loading"
    IN  [documentId |-> documentId, isNew |-> isNew, state |-> s,
         timer |-> FALSE, pended |-> s \in Pending]

\* Move a handle to state s; pended records whether the handle has ever been
\* in a pending state.
Enter(h, s, timer) ==
    [h EXCEPT !.state = s, !.timer = timer, !.pended = @ \/ s \in Pending]

\* handle.delete(): any state -> deleted, the request timer is cancelled.
\* On a handle that is already deleted nothing happens.
HandleDelete(h) == IF h.state = "deleted" THEN h ELSE Enter(h, "deleted", FALSE)

isUnavailable(h) == h.state = "unavailable"
isDeleted(h) == h.state = "deleted"

\* ---------------------------------------------------------------- variables
VARIABLES
    handleCache,    \* #handleCache: DocumentId -> handle, NoHandle when absent
    handles,        \* the DocHandle objects constructed so far, by index
    timeouts,       \* queue of the setTimeout callbacks find has scheduled
    emitted,        \* notifications emitted by the registry's last step, in order
    found,          \* per identifier, the handle the last find returned since
                    \* the last delete of the identifier (history)
    ret,            \* the registry call of the last step and its outcome
    peers           \* whether any peer is connected

vars == <<handleCache, handles, timeouts, emitted, found, ret, peers>>

Constructed == 1..Len(handles)

Event(type, handle, documentId) ==
    [type |-> type, handle |-> handle, documentId |-> documentId]

\* The outcome of a registry call or callback (op): the identifier its argument
\* resolved to, whether the argument was a valid url, whether the call threw,
\* the handle it returned or acted on, whether it constructed that handle
\* (fresh), the state that handle was in when the call began (was), and the
\* handle an earlier find returned for the identifier (before): for a find
\* the one recorded in found, for a timeout callback the one returned by the
\* find that scheduled it. When a listener of the application ran during the
\* call and called find from inside the notification, listener is the
\* notification it was subscribed to and nested the handle that find returned.
NoCall ==
    [op |-> "none", id |-> EmptyId, valid |-> FALSE, threw |-> FALSE,
     handle |-> NoHandle, fresh |-> FALSE, was |-> "none", before |-> NoHandle,
     listener |-> "none", nested |-> NoHandle]

Init ==
    /\ handleCache = [d \in Ids |-> NoHandle]
    /\ handles = <<>>
    /\ timeouts = <<>>
    /\ emitted = <<>>
    /\ found = [d \in Ids |-> NoHandle]
    /\ ret = NoCall
    /\ peers \in BOOLEAN

\* ----------------------------------------------------------- DocCollection
\* this.#handleCache[documentId] is truthy.
Cached(cache, documentId) ==
    /\ documentId \in DOMAIN cache
    /\ cache[documentId] # NoHandle

\* #getHandle without line 41: the new handle is returned but never cached.
GetHandleNoInsert(cache, hs, documentId, isNew) ==
    IF Cached(cache, documentId)
    THEN [threw |-> FALSE, handle |-> cache[documentId], fresh |-> FALSE,
          cache |-> cache, handles |-> hs]
    ELSE IF documentId = EmptyId
    THEN [threw |-> TRUE, handle |-> NoHandle, fresh |-> FALSE,
          cache |-> cache, handles |-> hs]
    ELSE [threw |-> FALSE, handle |-> Len(hs) + 1, fresh |-> TRUE,
          cache |-> cache,
          handles |-> Append(hs, NewDocHandle(documentId, isNew))]

\* #getHandle without line 36: a handle is constructed (and cached over the
\* old entry) even when one is cached.
GetHandleNoLookup(cache, hs, documentId, isNew) ==
    IF documentId = EmptyId
    THEN [threw |-> TRUE, handle |-> NoHandle, fresh |-> FALSE,
          cache |-> cache, handles |-> hs]
    ELSE [threw |-> FALSE, handle |-> Len(hs) + 1, fresh |-> TRUE,
          cache |-> [cache EXCEPT ![documentId] = Len(hs) + 1],
          handles |-> Append(hs, NewDocHandle(documentId, isNew))]

\* #getHandle with the guard of line 39 inverted: every non-empty identifier
\* without a cache entry is rejected.
GetHandleRejects(cache, hs, documentId, isNew) ==
    IF Cached(cache, documentId)
    THEN [threw |-> FALSE, handle |-> cache[documentId], fresh |-> FALSE,
          cache |-> cache, handles |-> hs]
    ELSE [threw |-> TRUE, handle |-> NoHandle, fresh |-> FALSE,
          cache |-> cache, handles |-> hs]

\* #getHandle without the guard of line 39: a handle is constructed for the
\* empty identifier too.
GetHandleNoGuard(cache, hs, documentId, isNew) ==
    IF Cached(cache, documentId)
    THEN [threw |-> FALSE, handle |-> cache[documentId], fresh |-> FALSE,
          cache |-> cache, handles |-> hs]
    ELSE [threw |-> FALSE, handle |-> Len(hs) + 1, fresh |-> TRUE,
          cache |-> [d \in DOMAIN cache |->
                        IF d = documentId THEN Len(hs) + 1 ELSE cache[d]],
          handles |-> Append(hs, NewDocHandle(documentId, isNew))]

\* #getHandle(documentId, isNew), as a function of the cache and the heap of
\* handles: the outcome, the handle returned and the cache and heap after it.
GetHandle(cache, hs, documentId, isNew) ==
    IF Cached(cache, documentId)
    THEN [threw |-> FALSE, handle |-> cache[documentId], fresh |-> FALSE,
          cache |-> cache, handles |-> hs]
    ELSE IF documentId = EmptyId
    THEN [threw |-> TRUE, handle |-> NoHandle, fresh |-> FALSE,
          cache |-> cache, handles |-> hs]
    ELSE [threw |-> FALSE, handle |-> Len(hs) + 1, fresh |-> TRUE,
          cache |-> [cache EXCEPT ![documentId] = Len(hs) + 1],
          handles |-> Append(hs, NewDocHandle(documentId, isNew))]

\* The state a handle returned by #getHandle was in before the call.
Was(hs, g) == IF g.fresh \/ g.threw THEN "none" ELSE hs[g.handle].state

\* create(), generateAutomergeUrl() producing the url of identifier d.
Create(d) ==
    LET documentId == parseAutomergeUrl(stringifyAutomergeUrl(d)).documentId
        g == GetHandle(handleCache, handles, documentId, TRUE)
    IN  /\ Len(g.handles) <= MaxHandles
        /\ handleCache' = g.cache
        /\ handles' = g.handles
        /\ emitted' = <<Event("document", g.handle, EmptyId)>>
        /\ ret' = [NoCall EXCEPT !.op = "create", !.id = documentId, !.valid = TRUE,
                                 !.handle = g.handle, !.fresh = g.fresh,
                                 !.was = Was(handles, g)]
        /\ UNCHANGED <<timeouts, found, peers>>

\* find without lines 89-91: the url is parsed without being validated.
FindNoValidate(automergeUrl) ==
    LET documentId == parseAutomergeUrl(automergeUrl).documentId IN
         IF Cached(handleCache, documentId)
         THEN /\ IF isUnavailable(handles[handleCache[documentId]])
                 THEN /\ Len(timeouts) < MaxTimeouts
                      /\ timeouts' = Append(timeouts,
                            [documentId |-> documentId, handle |-> handleCache[documentId]])
                 ELSE UNCHANGED timeouts
              /\ emitted' = <<>>
              /\ found' = [found EXCEPT ![documentId] = handleCache[documentId]]
              /\ ret' = [NoCall EXCEPT !.op = "find", !.id = documentId, !.valid = isValidAutomergeUrl(automergeUrl),
                                       !.handle = handleCache[documentId],
                                       !.was = handles[handleCache[documentId]].state,
                                       !.before = found[documentId]]
              /\ UNCHANGED <<handleCache, handles, peers>>
         ELSE LET g == GetHandle(handleCache, handles, documentId, FALSE) IN
              IF g.threw
              THEN /\ ret' = [NoCall EXCEPT !.op = "find", !.id = documentId,
                                            !.valid = isValidAutomergeUrl(automergeUrl), !.threw = TRUE]
                   /\ emitted' = <<>>
                   /\ UNCHANGED <<handleCache, handles, timeouts, found, peers>>
              ELSE /\ Len(g.handles) <= MaxHandles
                   /\ handleCache' = g.cache
                   /\ handles' = g.handles
                   /\ emitted' = <<Event("document", g.handle, EmptyId)>>
                   /\ found' = [found EXCEPT ![documentId] = g.handle]
                   /\ ret' = [NoCall EXCEPT !.op = "find", !.id = documentId,
                                            !.valid = isValidAutomergeUrl(automergeUrl), !.handle = g.handle,
                                            !.fresh = g.fresh, !.was = Was(handles, g),
                                            !.before = found[documentId]]
                   /\ UNCHANGED <<timeouts, peers>>

\* find(automergeUrl)
Find(automergeUrl) ==
    IF ~isValidAutomergeUrl(automergeUrl)
    THEN /\ ret' = [NoCall EXCEPT !.op = "find", !.threw = TRUE]
         /\ emitted' = <<>>
         /\ UNCHANGED <<handleCache, handles, timeouts, found, peers>>
    ELSE LET documentId == parseAutomergeUrl(automergeUrl).documentId IN
         IF Cached(handleCache, documentId)
         THEN /\ IF isUnavailable(handles[handleCache[documentId]])
                 THEN /\ Len(timeouts) < MaxTimeouts
                      /\ timeouts' = Append(timeouts,
                            [documentId |-> documentId, handle |-> handleCache[documentId]])
                 ELSE UNCHANGED timeouts
              /\ emitted' = <<>>
              /\ found' = [found EXCEPT ![documentId] = handleCache[documentId]]
              /\ ret' = [NoCall EXCEPT !.op = "find", !.id = documentId, !.valid = TRUE,
                                       !.handle = handleCache[documentId],
                                       !.was = handles[handleCache[documentId]].state,
                                       !.before = found[documentId]]
              /\ UNCHANGED <<handleCache, handles, peers>>
         ELSE LET g == GetHandle(handleCache, handles, documentId, FALSE) IN
              IF g.threw
              THEN /\ ret' = [NoCall EXCEPT !.op = "find", !.id = documentId,
                                            !.valid = TRUE, !.threw = TRUE]
                   /\ emitted' = <<>>
                   /\ UNCHANGED <<handleCache, handles, timeouts, found, peers>>
              ELSE /\ Len(g.handles) <= MaxHandles
                   /\ handleCache' = g.cache
                   /\ handles' = g.handles
                   /\ emitted' = <<Event("document", g.handle, EmptyId)>>
                   /\ found' = [found EXCEPT ![documentId] = g.handle]
                   /\ ret' = [NoCall EXCEPT !.op = "find", !.id = documentId,
                                            !.valid = TRUE, !.handle = g.handle,
                                            !.fresh = g.fresh, !.was = Was(handles, g),
                                            !.before = found[documentId]]
                   /\ UNCHANGED <<timeouts, peers>>

\* delete without line 121: handle.delete() is not called.
DeleteNoHandleDelete(arg) ==
    LET id == IF isValidAutomergeUrl(arg) THEN parseAutomergeUrl(arg).documentId
              ELSE arg[2]
        g == GetHandle(handleCache, handles, id, FALSE)
    IN  IF g.threw
        THEN /\ ret' = [NoCall EXCEPT !.op = "delete", !.id = id,
                                      !.valid = isValidAutomergeUrl(arg), !.threw = TRUE]
             /\ emitted' = <<>>
             /\ UNCHANGED <<handleCache, handles, timeouts, found, peers>>
        ELSE /\ Len(g.handles) <= MaxHandles
             /\ handles' = g.handles
             /\ handleCache' = [g.cache EXCEPT ![id] = NoHandle]
             /\ emitted' =
                    (IF isDeleted(g.handles[g.handle]) THEN <<>>
                     ELSE <<Event("delete", g.handle, EmptyId)>>)
                    \o <<Event("delete-document", NoHandle, id)>>
             /\ found' = [found EXCEPT ![id] = NoHandle]
             /\ ret' = [NoCall EXCEPT !.op = "delete", !.id = id,
                                      !.valid = isValidAutomergeUrl(arg),
                                      !.handle = g.handle, !.fresh = g.fresh,
                                      !.was = Was(handles, g)]
             /\ UNCHANGED <<timeouts, peers>>

\* delete without line 123: the cache entry is kept.
DeleteKeepsEntry(arg) ==
    LET id == IF isValidAutomergeUrl(arg) THEN parseAutomergeUrl(arg).documentId
              ELSE arg[2]
        g == GetHandle(handleCache, handles, id, FALSE)
    IN  IF g.threw
        THEN /\ ret' = [NoCall EXCEPT !.op = "delete", !.id = id,
                                      !.valid = isValidAutomergeUrl(arg), !.threw = TRUE]
             /\ emitted' = <<>>
             /\ UNCHANGED <<handleCache, handles, timeouts, found, peers>>
        ELSE /\ Len(g.handles) <= MaxHandles
             /\ handles' = [g.handles EXCEPT ![g.handle] = HandleDelete(@)]
             /\ handleCache' = g.cache
             /\ emitted' =
                    (IF isDeleted(g.handles[g.handle]) THEN <<>>
                     ELSE <<Event("delete", g.handle, EmptyId)>>)
                    \o <<Event("delete-document", NoHandle, id)>>
             /\ found' = [found EXCEPT ![id] = NoHandle]
             /\ ret' = [NoCall EXCEPT !.op = "delete", !.id = id,
                                      !.valid = isValidAutomergeUrl(arg),
                                      !.handle = g.handle, !.fresh = g.fresh,
                                      !.was = Was(handles, g)]
             /\ UNCHANGED <<timeouts, peers>>

\* delete with line 123 emptying the whole cache instead of removing one entry.
DeleteClearsCache(arg) ==
    LET id == IF isValidAutomergeUrl(arg) THEN parseAutomergeUrl(arg).documentId
              ELSE arg[2]
        g == GetHandle(handleCache, handles, id, FALSE)
    IN  IF g.threw
        THEN /\ ret' = [NoCall EXCEPT !.op = "delete", !.id = id,
                                      !.valid = isValidAutomergeUrl(arg), !.threw = TRUE]
             /\ emitted' = <<>>
             /\ UNCHANGED <<handleCache, handles, timeouts, found, peers>>
        ELSE /\ Len(g.handles) <= MaxHandles
             /\ handles' = [g.handles EXCEPT ![g.handle] = HandleDelete(@)]
             /\ handleCache' = [d \in Ids |-> NoHandle]
             /\ emitted' =
                    (IF isDeleted(g.handles[g.handle]) THEN <<>>
                     ELSE <<Event("delete", g.handle, EmptyId)>>)
                    \o <<Event("delete-document", NoHandle, id)>>
             /\ found' = [found EXCEPT ![id] = NoHandle]
             /\ ret' = [NoCall EXCEPT !.op = "delete", !.id = id,
                                      !.valid = isValidAutomergeUrl(arg),
                                      !.handle = g.handle, !.fresh = g.fresh,
                                      !.was = Was(handles, g)]
             /\ UNCHANGED <<timeouts, peers>>

\* delete(id), id being a DocumentId or an AutomergeUrl.
Delete(arg) ==
    LET id == IF isValidAutomergeUrl(arg) THEN parseAutomergeUrl(arg).documentId
              ELSE arg[2]
        g == GetHandle(handleCache, handles, id, FALSE)
    IN  IF g.threw
        THEN /\ ret' = [NoCall EXCEPT !.op = "delete", !.id = id,
                                      !.valid = isValidAutomergeUrl(arg), !.threw = TRUE]
             /\ emitted' = <<>>
             /\ UNCHANGED <<handleCache, handles, timeouts, found, peers>>
        ELSE /\ Len(g.handles) <= MaxHandles
             /\ handles' = [g.handles EXCEPT ![g.handle] = HandleDelete(@)]
             /\ handleCache' = [g.cache EXCEPT ![id] = NoHandle]
             /\ emitted' =
                    (IF isDeleted(g.handles[g.handle]) THEN <<>>
                     ELSE <<Event("delete", g.handle, EmptyId)>>)
                    \o <<Event("delete-document", NoHandle, id)>>
             /\ found' = [found EXCEPT ![id] = NoHandle]
             /\ ret' = [NoCall EXCEPT !.op = "delete", !.id = id,
                                      !.valid = isValidAutomergeUrl(arg),
                                      !.handle = g.handle, !.fresh = g.fresh,
                                      !.was = Was(handles, g)]
             /\ UNCHANGED <<timeouts, peers>>

\* The callback find passed to setTimeout runs: it reads the cache entry of
\* its documentId again and emits "unavailable" on it; with no entry the
\* property access on undefined raises a TypeError.
TimeoutFires ==
    /\ timeouts # <<>>
    /\ LET t == Head(timeouts) IN
       IF Cached(handleCache, t.documentId)
       THEN /\ emitted' = <<Event("unavailable", handleCache[t.documentId], EmptyId)>>
            /\ ret' = [NoCall EXCEPT !.op = "timeout", !.id = t.documentId,
                                     !.handle = handleCache[t.documentId],
                                     !.was = handles[handleCache[t.documentId]].state,
                                     !.before = t.handle]
       ELSE /\ emitted' = <<>>
            /\ ret' = [NoCall EXCEPT !.op = "timeout", !.id = t.documentId,
                                     !.threw = TRUE, !.before = t.handle]
    /\ timeouts' = Tail(timeouts)
    /\ UNCHANGED <<handleCache, handles, found, peers>>

\* ------------------------------------------- listeners that call find
\* find(automergeUrl) as a function of the registry state it runs in: the
\* handle it returns, the notifications it emits and the state it leaves.
\* It is what a listener's call of find does while the call that emitted the
\* notification is still running.
FindIn(cache, hs, tq, automergeUrl) ==
    IF ~isValidAutomergeUrl(automergeUrl)
    THEN [threw |-> TRUE, handle |-> NoHandle, cache |-> cache, handles |-> hs,
          timeouts |-> tq, emitted |-> <<>>]
    ELSE LET documentId == parseAutomergeUrl(automergeUrl).documentId IN
         IF Cached(cache, documentId)
         THEN [threw |-> FALSE, handle |-> cache[documentId],
               cache |-> cache, handles |-> hs,
               timeouts |-> IF isUnavailable(hs[cache[documentId]])
                            THEN Append(tq, [documentId |-> documentId,
                                             handle |-> cache[documentId]])
                            ELSE tq,
               emitted |-> <<>>]
         ELSE LET g == GetHandle(cache, hs, documentId, FALSE) IN
              IF g.threw
              THEN [threw |-> TRUE, handle |-> NoHandle, cache |-> cache,
                    handles |-> hs, timeouts |-> tq, emitted |-> <<>>]
              ELSE [threw |-> FALSE, handle |-> g.handle, cache |-> g.cache,
                    handles |-> g.handles, timeouts |-> tq,
                    emitted |-> <<Event("document", g.handle, EmptyId)>>]

\* create() while a listener of "document" calls find with the url of the
\* announced handle: the listener runs inside emit (line 77), after #getHandle
\* (line 76) has returned.
CreateListen(d) ==
    LET documentId == parseAutomergeUrl(stringifyAutomergeUrl(d)).documentId
        g == GetHandle(handleCache, handles, documentId, TRUE)
        n == FindIn(g.cache, g.handles, timeouts,
                    stringifyAutomergeUrl(g.handles[g.handle].documentId))
    IN  /\ Len(n.handles) <= MaxHandles
        /\ Len(n.timeouts) <= MaxTimeouts
        /\ handleCache' = n.cache
        /\ handles' = n.handles
        /\ timeouts' = n.timeouts
        /\ emitted' = <<Event("document", g.handle, EmptyId)>> \o n.emitted
        /\ found' = [found EXCEPT ![documentId] = n.handle]
        /\ ret' = [NoCall EXCEPT !.op = "create", !.id = documentId, !.valid = TRUE,
                                 !.handle = g.handle, !.fresh = g.fresh,
                                 !.was = Was(handles, g),
                                 !.listener = "document", !.nested = n.handle]
        /\ UNCHANGED peers

\* find with "document" emitted before the handle is stored in the cache:
\* the listener's find runs on the cache as it was.
FindListenAnnouncesFirst(automergeUrl) ==
    /\ isValidAutomergeUrl(automergeUrl)
    /\ LET documentId == parseAutomergeUrl(automergeUrl).documentId
           g == GetHandle(handleCache, handles, documentId, FALSE)
           n == FindIn(handleCache, g.handles, timeouts,
                       stringifyAutomergeUrl(g.handles[g.handle].documentId))
       IN  /\ ~Cached(handleCache, documentId)
           /\ ~g.threw
           /\ Len(n.handles) <= MaxHandles
           /\ Len(n.timeouts) <= MaxTimeouts
           /\ handleCache' = [n.cache EXCEPT ![documentId] = g.handle]
           /\ handles' = n.handles
           /\ timeouts' = n.timeouts
           /\ emitted' = <<Event("document", g.handle, EmptyId)>> \o n.emitted
           /\ found' = [found EXCEPT ![documentId] = n.handle]
           /\ ret' = [NoCall EXCEPT !.op = "find", !.id = documentId, !.valid = TRUE,
                                    !.handle = g.handle, !.fresh = g.fresh,
                                    !.was = Was(handles, g),
                                    !.before = found[documentId],
                                    !.listener = "document", !.nested = n.handle]
           /\ UNCHANGED peers

\* find(automergeUrl) on an identifier with no cache entry, while a listener
\* of "document" calls find with the url of the announced handle: the
\* listener runs inside emit (line 108), after #getHandle (line 107) has
\* returned. (A find that throws or hits the cache emits no "document".)
FindListen(automergeUrl) ==
    /\ isValidAutomergeUrl(automergeUrl)
    /\ LET documentId == parseAutomergeUrl(automergeUrl).documentId
           g == GetHandle(handleCache, handles, documentId, FALSE)
           n == FindIn(g.cache, g.handles, timeouts,
                       stringifyAutomergeUrl(g.handles[g.handle].documentId))
       IN  /\ ~Cached(handleCache, documentId)
           /\ ~g.threw
           /\ Len(n.handles) <= MaxHandles
           /\ Len(n.timeouts) <= MaxTimeouts
           /\ handleCache' = n.cache
           /\ handles' = n.handles
           /\ timeouts' = n.timeouts
           /\ emitted' = <<Event("document", g.handle, EmptyId)>> \o n.emitted
           /\ found' = [found EXCEPT ![documentId] = n.handle]
           /\ ret' = [NoCall EXCEPT !.op = "find", !.id = documentId, !.valid = TRUE,
                                    !.handle = g.handle, !.fresh = g.fresh,
                                    !.was = Was(handles, g),
                                    !.before = found[documentId],
                                    !.listener = "document", !.nested = n.handle]
           /\ UNCHANGED peers

\* delete(id) of a cached handle that is not deleted yet, while a listener of
\* that handle's "delete" calls find with the handle's url: the listener runs
\* inside handle.delete() (line 121), before the cache entry is removed
\* (line 123).
DeleteListen(arg) ==
    LET id == IF isValidAutomergeUrl(arg) THEN parseAutomergeUrl(arg).documentId
              ELSE arg[2]
        g == GetHandle(handleCache, handles, id, FALSE)
    IN  /\ ~g.threw
        /\ ~g.fresh
        /\ ~isDeleted(g.handles[g.handle])
        /\ LET n == FindIn(g.cache, [g.handles EXCEPT ![g.handle] = HandleDelete(@)],
                           timeouts,
                           stringifyAutomergeUrl(g.handles[g.handle].documentId))
           IN  /\ Len(n.handles) <= MaxHandles
               /\ Len(n.timeouts) <= MaxTimeouts
               /\ handles' = n.handles
               /\ handleCache' = [n.cache EXCEPT ![id] = NoHandle]
               /\ timeouts' = n.timeouts
               /\ emitted' = <<Event("delete", g.handle, EmptyId)>> \o n.emitted
                                \o <<Event("delete-document", NoHandle, id)>>
               /\ found' = [found EXCEPT ![id] = NoHandle]
               /\ ret' = [NoCall EXCEPT !.op = "delete", !.id = id,
                                        !.valid = isValidAutomergeUrl(arg),
                                        !.handle = g.handle, !.fresh = g.fresh,
                                        !.was = Was(handles, g),
                                        !.listener = "delete", !.nested = n.handle]
               /\ UNCHANGED peers

\* ----------------------------------------- events delivered to a DocHandle
\* One event reaches handle h and moves it to state s (timer as given).
Deliver(op, h, s, timer) ==
    /\ handles' = [handles EXCEPT ![h] = Enter(@, s, timer)]
    /\ emitted' = <<>>
    /\ ret' = NoCall
    /\ UNCHANGED <<handleCache, timeouts, found, peers>>

\* An event reaches handle h in a state that has no transition for it: it
\* is discarded.
Discard(op, h) == Deliver(op, h, handles[h].state, handles[h].timer)

\* The identifiers that have a storage entry.
Stored == {1}

\* The storage load started by the constructor completes.
StorageLoaded(h) ==
    /\ h \in Constructed
    /\ handles[h].state \in {"loading", "deleted"}
    /\ handles[h].pended
    /\ IF handles[h].state = "deleted" THEN Discard("load", h)
       ELSE IF handles[h].documentId \in Stored THEN Deliver("load", h, "ready", FALSE)
       ELSE IF peers THEN Deliver("load", h, "requesting", TRUE)
       ELSE Deliver("load", h, "unavailable", FALSE)

\* A sync or welcome message carrying the document arrives for handle h.
Sync(h) ==
    /\ h \in Constructed
    /\ peers
    /\ IF handles[h].state \in {"requesting", "unavailable"}
       THEN Deliver("sync", h, "ready", FALSE)
       ELSE Discard("sync", h)

\* Every connected peer has answered documentUnavailable for handle h.
DocumentUnavailable(h) ==
    /\ h \in Constructed
    /\ peers
    /\ IF handles[h].state = "requesting"
       THEN Deliver("documentUnavailable", h, "unavailable", FALSE)
       ELSE Discard("documentUnavailable", h)

\* A peer announces that the document of handle h now exists.
Arrive(h) ==
    /\ h \in Constructed
    /\ peers
    /\ IF handles[h].state = "unavailable"
       THEN Deliver("arrive", h, "ready", FALSE)
       ELSE Discard("arrive", h)

\* The response deadline of handle h elapses (the timer is armed).
RequestTimeout(h) ==
    /\ h \in Constructed
    /\ handles[h].timer
    /\ IF handles[h].state = "requesting"
       THEN Deliver("requestTimeout", h, "unavailable", FALSE)
       ELSE Deliver("requestTimeout", h, handles[h].state, FALSE)

\* The application calls delete() on a handle it holds.
AppHandleDelete(h) ==
    /\ h \in Constructed
    /\ ~isDeleted(handles[h])
    /\ Deliver("handleDelete", h, HandleDelete(handles[h]).state,
               HandleDelete(handles[h]).timer)

PeerConnects ==
    /\ ~peers
    /\ peers' = TRUE
    /\ emitted' = <<>>
    /\ ret' = NoCall
    /\ UNCHANGED <<handleCache, handles, timeouts, found>>

PeerDisconnects ==
    /\ peers
    /\ peers' = FALSE
    /\ emitted' = <<>>
    /\ ret' = NoCall
    /\ UNCHANGED <<handleCache, handles, timeouts, found>>

\* ------------------------------------------------------------ specification
Next ==
    \/ \E d \in Ids : Create(d)
    \/ \E u \in Urls : Find(u)
    \/ \E x \in DeleteArgs : Delete(x)
    \/ TimeoutFires
    \/ \E h \in Handles : StorageLoaded(h)
    \/ \E h \in Handles : Sync(h)
    \/ \E h \in Handles : DocumentUnavailable(h)
    \/ \E h \in Handles : Arrive(h)
    \/ \E h \in Handles : RequestTimeout(h)
    \/ PeerConnects
    \/ PeerDisconnects

Spec == Init /\ [][Next]_vars

\* The same with the application deleting handles it holds directly.
NextApp == Next \/ \E h \in Handles : AppHandleDelete(h)

SpecApp == Init /\ [][NextApp]_vars

\* The storage load a handle has started completes, and an armed request
\* timer fires, unless the handle leaves the state that waits for them.
Fairness ==
    \A h \in Handles : WF_vars(StorageLoaded(h)) /\ WF_vars(RequestTimeout(h))

FairSpec == Spec /\ Fairness

\* The registry with a listener of "document" that calls find from inside the
\* notification.
NextListen ==
    \/ Next
    \/ \E d \in Ids : CreateListen(d)
    \/ \E u \in ValidUrls : FindListen(u)

SpecListen == Init /\ [][NextListen]_vars

\* The registry with a listener of a handle's "delete" that calls find from
\* inside the notification.
NextDeleteListen == Next \/ \E x \in DeleteArgs : DeleteListen(x)

SpecDeleteListen == Init /\ [][NextDeleteListen]_vars

\* ------------------------------------------------------------------- claims
SameId(h1, h2) == handles[h1].documentId = handles[h2].documentId

\* C1: a find that follows an earlier find of the same identifier, with no
\* delete of that identifier in between, returns the handle the earlier find
\* returned, whatever state that handle is in.
C1_FindReturnsSameHandle ==
    (ret.op = "find" /\ ret.valid /\ ret.before # NoHandle)
        => (~ret.threw /\ ret.handle = ret.before)

\* C1 witness: a repeated find has returned the earlier handle, which is
\* unavailable at that moment.
C1_Witness ==
    /\ ret.op = "find"
    /\ ret.before # NoHandle
    /\ ret.handle = ret.before
    /\ ret.was = "unavailable"

\* The same for a handle that is loading, requesting or ready.
C1_WitnessLoading == ret.op = "find" /\ ret.before # NoHandle /\ ret.was = "loading"
C1_WitnessRequesting == ret.op = "find" /\ ret.before # NoHandle /\ ret.was = "requesting"
C1_WitnessReady == ret.op = "find" /\ ret.before # NoHandle /\ ret.was = "ready"

\* C2 as stated: over the lifetime of the registry at most one handle is
\* ever constructed for an identifier.
C2_OneHandleEver ==
    \A h1, h2 \in Constructed : SameId(h1, h2) => h1 = h2

\* C2 as amended: a handle is constructed for an identifier only by a call
\* that finds no cache entry for it, and at that moment every handle
\* constructed earlier for the identifier is deleted.
C2_ConstructedOnlyWhenAbsent ==
    [][\A h \in 1..Len(handles') :
          h > Len(handles) =>
             /\ handleCache[handles'[h].documentId] = NoHandle
             /\ \A h1 \in Constructed :
                   handles[h1].documentId = handles'[h].documentId
                       => isDeleted(handles[h1])]_vars

\* C2 witness: a find has constructed a second handle for an identifier
\* whose first handle was deleted.
C2_Witness ==
    /\ ret.op = "find"
    /\ ret.fresh
    /\ \E h1 \in Constructed :
          h1 # ret.handle /\ SameId(h1, ret.handle) /\ isDeleted(handles[h1])

\* C3: every handle that is not deleted is the one the cache holds for its
\* identifier (so no two distinct non-deleted handles share an identifier),
\* and a cache entry refers to a handle of that identifier; in particular the
\* handle create or find has just returned is the cached one.
C3_OneLiveHandlePerId ==
    /\ \A h \in Constructed :
          ~isDeleted(handles[h]) => handleCache[handles[h].documentId] = h
    /\ \A d \in Ids :
          Cached(handleCache, d) =>
             handleCache[d] \in Constructed /\ handles[handleCache[d]].documentId = d
    /\ (ret.op \in {"create", "find"} /\ ~ret.threw) => handleCache[ret.id] = ret.handle

\* C3 witness: after delete and a new find, the identifier has a deleted
\* handle and a live one, and the live one is cached.
C3_Witness ==
    \E h1, h2 \in Constructed :
       /\ h1 # h2
       /\ SameId(h1, h2)
       /\ isDeleted(handles[h1])
       /\ ~isDeleted(handles[h2])
       /\ handleCache[handles[h2].documentId] = h2

\* C4 as stated: the handle create returns is ready when create returns, is
\* the cache entry of its identifier, and has never been loading or
\* requesting.
C4_CreateReturnsNewReady ==
    ret.op = "create" =>
        /\ ~ret.threw
        /\ handles[ret.handle].state = "ready"
        /\ handleCache[ret.id] = ret.handle
        /\ ~handles[ret.handle].pended

\* C4 restricted to the calls on which the generated identifier has no cache
\* entry (create constructs the handle).
C4_FreshCreateReturnsNewReady ==
    (ret.op = "create" /\ ret.fresh) =>
        /\ ~ret.threw
        /\ handles[ret.handle].state = "ready"
        /\ handleCache[ret.id] = ret.handle
        /\ ~handles[ret.handle].pended

\* C5: a find whose url fails validation throws and changes neither the
\* cache, the handles nor the scheduled callbacks, and emits nothing.
C5_InvalidFindTouchesNothing ==
    [][(ret'.op = "find" /\ ~ret'.valid) =>
          /\ ret'.threw
          /\ handleCache' = handleCache
          /\ handles' = handles
          /\ timeouts' = timeouts
          /\ found' = found
          /\ emitted' = <<>>]_vars

\* C5 witness: find has rejected an invalid url in a registry that holds a
\* cached handle and a scheduled callback.
C5_Witness ==
    /\ ret.op = "find"
    /\ ~ret.valid
    /\ ret.threw
    /\ \E d \in Ids : Cached(handleCache, d)
    /\ timeouts # <<>>

\* C6 as stated: a find that hits a cached handle emits nothing during the
\* call and schedules one callback exactly when the handle is unavailable;
\* the callback of each such find then delivers exactly one "unavailable"
\* notification, on the handle that find returned.
C6_UnavailableOncePerFind ==
    [][/\ (ret'.op = "find" /\ ~ret'.threw /\ ~ret'.fresh) =>
             /\ emitted' = <<>>
             /\ timeouts' =
                   IF ret'.was = "unavailable"
                   THEN Append(timeouts, [documentId |-> ret'.id, handle |-> ret'.handle])
                   ELSE timeouts
       /\ ret'.op = "timeout" =>
             /\ ~ret'.threw
             /\ emitted' = <<Event("unavailable", ret'.before, EmptyId)>>]_vars

\* The part of C6 about scheduling alone.
C6_SchedulesOncePerUnavailableHit ==
    [][(ret'.op = "find" /\ ~ret'.threw /\ ~ret'.fresh) =>
          /\ emitted' = <<>>
          /\ timeouts' =
                IF ret'.was = "unavailable"
                THEN Append(timeouts, [documentId |-> ret'.id, handle |-> ret'.handle])
                ELSE timeouts]_vars

\* C7 as stated: a `document` notification is emitted only by the create or
\* find call that constructs the handle it carries, that call emits exactly
\* one, and a find that hits the cache emits nothing.
C7_DocumentAnnouncedOnce ==
    /\ \A i \in 1..Len(emitted) :
          emitted[i].type = "document" =>
             /\ ret.op \in {"create", "find"}
             /\ ret.fresh
             /\ emitted[i].handle = ret.handle
    /\ (ret.op \in {"create", "find"} /\ ret.fresh) =>
          emitted = <<Event("document", ret.handle, EmptyId)>>
    /\ (ret.op = "find" /\ ~ret.fresh) => emitted = <<>>

\* C7 for find alone.
C7_FindAnnouncesOnce ==
    ret.op = "find" =>
        emitted = IF ret.fresh THEN <<Event("document", ret.handle, EmptyId)>> ELSE <<>>

\* C8: after delete of a valid identifier or url the cache has no entry for
\* the identifier, the handle delete acted on is a deleted handle of that
\* identifier, exactly one `delete-document` carrying the identifier and no
\* `document` was emitted.
C8_DeleteRemovesAndAnnounces ==
    (ret.op = "delete" /\ ret.id \in Ids) =>
        /\ ~ret.threw
        /\ handleCache[ret.id] = NoHandle
        /\ ret.handle \in Constructed
        /\ handles[ret.handle].documentId = ret.id
        /\ isDeleted(handles[ret.handle])
        /\ Cardinality({i \in 1..Len(emitted) : emitted[i].type = "delete-document"}) = 1
        /\ \A i \in 1..Len(emitted) :
              /\ emitted[i].type = "delete-document" => emitted[i].documentId = ret.id
              /\ emitted[i].type # "document"

\* C8 witness: delete was called for an identifier with no cache entry and
\* has constructed the handle it deleted.
C8_Witness ==
    /\ ret.op = "delete"
    /\ ret.fresh
    /\ isDeleted(handles[ret.handle])

\* The same for a url whose handle was cached and ready.
C8_WitnessCached ==
    /\ ret.op = "delete"
    /\ ret.valid
    /\ ret.was = "ready"

\* C9: a handle that is deleted stays deleted with its request timer
\* cancelled, whatever happens next (load result, sync, welcome,
\* documentUnavailable, arrive, timeout, further registry calls), and the
\* handle the registry's delete has acted on is deleted with its timer
\* cancelled when delete returns.
C9_DeletionIsTerminal ==
    [][/\ \A h \in Constructed :
             isDeleted(handles[h]) =>
                isDeleted(handles'[h]) /\ ~handles'[h].timer
       /\ (ret'.op = "delete" /\ ~ret'.threw) =>
             isDeleted(handles'[ret'.handle]) /\ ~handles'[ret'.handle].timer]_vars

\* C9 witness: delete has deleted a handle whose request was outstanding,
\* with a peer connected whose answers can still arrive.
C9_Witness ==
    /\ ret.op = "delete"
    /\ ret.was = "requesting"
    /\ isDeleted(handles[ret.handle])
    /\ ~handles[ret.handle].timer
    /\ peers

\* The same for a handle deleted while loading, and for the handle that
\* delete constructs itself.
C9_WitnessLoading == ret.op = "delete" /\ ret.was = "loading"
C9_WitnessTransient ==
    ret.op = "delete" /\ ret.fresh /\ ~handles[ret.handle].isNew

InState(h, states) == h \in Constructed /\ handles[h].state \in states

\* C10: find with a valid url does not throw; a handle that is loading or
\* requesting eventually is ready, unavailable or deleted; a load that finds
\* no storage entry while no peer is connected makes the handle unavailable,
\* and a loading handle without storage entry reaches unavailable if no peer
\* connects and it is not deleted.
C10_FindSettles ==
    /\ [](ret.op = "find" /\ ret.valid => ~ret.threw)
    /\ \A h \in Handles :
          InState(h, Pending) ~> InState(h, {"ready", "unavailable", "deleted"})
    /\ \A h \in Handles :
          (/\ InState(h, {"loading"})
           /\ handles[h].documentId \notin Stored
           /\ [](~peers /\ ~InState(h, {"deleted"})))
              ~> InState(h, {"unavailable"})
    /\ [][\A h \in Constructed :
             (/\ handles[h].state = "loading"
              /\ handles'[h].state \notin {"loading", "deleted"}
              /\ handles[h].documentId \notin Stored
              /\ ~peers)
                => handles'[h].state = "unavailable"]_vars

\* C10 witness: a handle find constructed for an identifier without storage
\* entry has become unavailable with no peer connected.
C10_Witness ==
    /\ ~peers
    /\ \E h \in Constructed :
          /\ handles[h].state = "unavailable"
          /\ handles[h].documentId \notin Stored
          /\ found[handles[h].documentId] = h

\* C11 as stated: create returns a handle it has constructed, for an
\* identifier that had no cache entry, or fails.
C11_CreateReturnsNewHandle ==
    (ret.op = "create" /\ ~ret.threw) => ret.fresh

\* C13: delete of the empty identifier throws and changes neither the cache,
\* the handles nor the scheduled callbacks, and emits nothing.
C13_EmptyIdDeleteTouchesNothing ==
    [][(ret'.op = "delete" /\ ret'.id = EmptyId) =>
          /\ ret'.threw
          /\ handleCache' = handleCache
          /\ handles' = handles
          /\ timeouts' = timeouts
          /\ found' = found
          /\ emitted' = <<>>]_vars

\* C13 witness: delete has rejected the empty identifier in a registry that
\* holds a cached handle.
C13_Witness ==
    /\ ret.op = "delete"
    /\ ret.id = EmptyId
    /\ ret.threw
    /\ \E d \in Ids : Cached(handleCache, d)

\* C14 as stated: the callback find scheduled raises no error and reaches
\* the handle that find returned.
C14_CallbackReachesReturnedHandle ==
    ret.op = "timeout" => (~ret.threw /\ ret.handle = ret.before)

\* C14 for the runs in which the identifier is not deleted between find and
\* the callback: the entry is still the handle find returned.
C14_CallbackWithoutDelete ==
    (ret.op = "timeout" /\ ~isDeleted(handles[ret.before])) =>
        (~ret.threw /\ ret.handle = ret.before)

\* C15 as stated: the handle on which the callback emits "unavailable" is
\* unavailable at that moment.
C15_DeliveredOnUnavailableHandle ==
    (ret.op = "timeout" /\ ~ret.threw) => ret.was = "unavailable"

\* C17: a create, find or delete acting on one identifier leaves every other
\* identifier as it was: its cache entry, its handles and their states; no
\* handle is constructed for it, no notification emitted by the call carries
\* it or one of its handles, and no callback is scheduled for it.
C17_OtherIdentifiersUntouched ==
    [][ret'.op \in {"create", "find", "delete"} =>
          \A b \in Ids \ {ret'.id} :
             /\ handleCache'[b] = handleCache[b]
             /\ \A h \in Constructed :
                   handles[h].documentId = b => handles'[h] = handles[h]
             /\ \A h \in 1..Len(handles') :
                   handles'[h].documentId = b => h \in Constructed
             /\ \A i \in 1..Len(emitted') :
                   /\ emitted'[i].documentId # b
                   /\ emitted'[i].handle # NoHandle =>
                         handles'[emitted'[i].handle].documentId # b
             /\ \A i \in 1..Len(timeouts') :
                   timeouts'[i].documentId = b =>
                      i <= Len(timeouts) /\ timeouts[i] = timeouts'[i]]_vars

\* C17 witness: delete has acted on one identifier while another identifier
\* has a cached handle that is not deleted.
C17_Witness ==
    /\ ret.op = "delete"
    /\ ~ret.threw
    /\ \E b \in Ids \ {ret.id} :
          Cached(handleCache, b) /\ ~isDeleted(handles[handleCache[b]])

\* C12: when a listener of "document" calls find for the announced handle's
\* identifier from inside the notification of create or of find, the handle
\* is already the cache entry: the listener's find returns the very handle
\* being announced and emits no "document" of its own.
C12_RegisteredBeforeAnnounced ==
    ret.listener = "document" =>
        /\ ~ret.threw
        /\ ret.nested = ret.handle
        /\ handleCache[ret.id] = ret.handle
        /\ emitted = <<Event("document", ret.handle, EmptyId)>>

\* C12 witness: find has constructed a handle and the listener's find has
\* run during its "document" notification.
C12_Witness ==
    /\ ret.op = "find"
    /\ ret.listener = "document"
    /\ ret.fresh
    /\ ret.nested # NoHandle

\* The same for create.
C12_WitnessCreate ==
    /\ ret.op = "create"
    /\ ret.listener = "document"
    /\ ret.fresh
    /\ ret.nested # NoHandle

\* C16 as stated: no handle returned by create or find, to the caller or to
\* a listener that called find, is deleted, and no cache entry is a deleted
\* handle.
C16_NoDeletedHandleReturned ==
    /\ (ret.op \in {"create", "find"} /\ ~ret.threw)
           => ~isDeleted(handles[ret.handle])
    /\ ret.nested # NoHandle => ~isDeleted(handles[ret.nested])
    /\ \A d \in Ids :
          Cached(handleCache, d) => ~isDeleted(handles[handleCache[d]])

\* C16 without listeners and without handle.delete() called by the
\* application (the runs of Spec): the statement above.
C16_RegistryAloneReturnsNoDeletedHandle ==
    /\ (ret.op \in {"create", "find"} /\ ~ret.threw)
           => ~isDeleted(handles[ret.handle])
    /\ \A d \in Ids :
          Cached(handleCache, d) => ~isDeleted(handles[handleCache[d]])

====
